---- MODULE Spec2Model ----
(***************************************************************************)
(* ghd backend: the local store (src-tauri/src/db.rs) and the token/user   *)
(* session layer on top of it (src-tauri/src/gh.rs).                       *)
(*                                                                         *)
(* The database file outlives the process; the DB handle, the pool and the *)
(* in-flight set_token calls do not.  A panic ends the process; sqlite     *)
(* rolls back whatever transaction was open.                               *)
(***************************************************************************)
EXTENDS Integers, FiniteSets, Sequences, TLC

\* ---------------------------------------------------------------- bounds
MaxSeq == 3            \* token rows ever inserted (cap on the AUTOINCREMENT counter)

Calls == {1, 2}        \* set_token calls that may be in flight together
UserIds == {1, 2}
Logins == {"octo", "cat"}
TokenStrings == {"T1", "T2"}
Names == {"n1", "n2"}
Avatars == {"v1", "v2"}

\* tokens.user_id is nullable; the remote ids are positive
NULL == 0

\* reqwest::StatusCode::FORBIDDEN
FORBIDDEN == 403
StatusCodes == {FORBIDDEN, 500}

\* ---------------------------------------------------------------- values
\* struct GithubUser { login, id, avatar_url, name }
GithubUser == [id : UserIds, login : Logins, name : Names, avatar_url : Avatars]

\* the profiles the remote answers with: an account shows its first or its
\* second name and avatar
Profiles == {u \in GithubUser : (u.name = "n1") <=> (u.avatar_url = "v1")}

Ok(v) == [ok |-> v]
Err(e) == [err |-> e]
IsOk(r) == DOMAIN r = {"ok"}
IsErr(r) == DOMAIN r = {"err"}

SetMax(S) == CHOOSE m \in S : \A x \in S : x <= m

\* the content of a database file that holds the schema
EmptyTables == [users |-> {}, tokens |-> {}, seq |-> 0]

NoTx == [none |-> TRUE]
NoUser == [none |-> TRUE]
NoRet == [op |-> "none"]

VARIABLES
    dbfile,     \* "absent" | "empty" (file, no schema) | "ready" (schema applied)
    tables,     \* committed content: users rows, tokens rows, sqlite_sequence
    proc,       \* "down" | "up": is there a process holding a DB handle
    pool,       \* DB.pool is Some(_)
    setupPc,    \* "idle" | "created": DB::setup between create_database and the schema
    pc,         \* per set_token call: idle, whoami, insert, commit
    tok,        \* per call: the token argument
    user,       \* per call: the profile whoami returned
    tx,         \* the tables as seen inside the one write transaction, or NoTx
    ret         \* what the step just taken returned to its caller, if it returned

vars == <<dbfile, tables, proc, pool, setupPc, pc, tok, user, tx, ret>>

\* ------------------------------------------------------------ sql, schema
\* a bug: an upsert that updates login and name of the row it finds and
\* leaves its avatar_url
UpdateUserKeepAvatar(t, u) ==
    LET old == {r \in t.users : r.id = u.id}
        new == IF old = {} THEN u
               ELSE [u EXCEPT !.avatar_url = (CHOOSE r \in old : TRUE).avatar_url]
    IN  [t EXCEPT !.users =
            {r \in t.users : r.id # u.id /\ r.login # u.login} \cup {new}]

\* a bug: INSERT OR IGNORE, which drops the new row on a conflict
InsertOrIgnoreUser(t, u) ==
    IF \E r \in t.users : r.id = u.id \/ r.login = u.login
    THEN t
    ELSE [t EXCEPT !.users = t.users \cup {u}]

\* users: id PRIMARY KEY, login UNIQUE.  REPLACE deletes every row that
\* conflicts on either, then inserts.
InsertOrReplaceUser(t, u) ==
    [t EXCEPT !.users =
        {r \in t.users : r.id # u.id /\ r.login # u.login} \cup {u}]

\* a bug: INSERT OR IGNORE, which keeps the row already stored for the pair
InsertOrIgnoreToken(t, token, uid) ==
    IF \E r \in t.tokens : uid # NULL /\ r.token = token /\ r.user_id = uid
    THEN t
    ELSE LET nid == SetMax({t.seq} \cup {r.id : r \in t.tokens}) + 1
         IN  [t EXCEPT !.tokens = t.tokens \cup
                           {[id |-> nid, token |-> token, user_id |-> uid]},
                       !.seq = nid]

\* a bug: an upsert keyed on the token alone, which rebinds the stored row
UpdateTokenUser(t, token, uid) ==
    IF \E r \in t.tokens : r.token = token
    THEN [t EXCEPT !.tokens =
             {IF r.token = token THEN [r EXCEPT !.user_id = uid] ELSE r :
                  r \in t.tokens}]
    ELSE LET nid == SetMax({t.seq} \cup {r.id : r \in t.tokens}) + 1
         IN  [t EXCEPT !.tokens = t.tokens \cup
                           {[id |-> nid, token |-> token, user_id |-> uid]},
                       !.seq = nid]

\* a bug: a plain INSERT into a table without the UNIQUE constraint
InsertTokenPlain(t, token, uid) ==
    LET nid == SetMax({t.seq} \cup {r.id : r \in t.tokens}) + 1
    IN  [t EXCEPT !.tokens = t.tokens \cup
                      {[id |-> nid, token |-> token, user_id |-> uid]},
                  !.seq = nid]

\* tokens: id AUTOINCREMENT, UNIQUE(token, user_id).  NULLs never conflict.
\* The new rowid is one more than the largest rowid the table ever held.
NextTokenId(t) ==
    SetMax({t.seq} \cup {r.id : r \in t.tokens}) + 1

InsertOrReplaceToken(t, token, uid) ==
    LET kept == {r \in t.tokens :
                    ~(uid # NULL /\ r.token = token /\ r.user_id = uid)}
        nid == NextTokenId(t)
    IN  [t EXCEPT !.tokens = kept \cup
                      {[id |-> nid, token |-> token, user_id |-> uid]},
                  !.seq = nid]

\* a bug: SELECT MIN(id)
MinIdTokens(t) ==
    {r \in t.tokens : \A q \in t.tokens : r.id <= q.id}

\* SELECT ... FROM tokens WHERE id = (SELECT MAX(id) FROM tokens)
MaxIdTokens(t) ==
    {r \in t.tokens : \A q \in t.tokens : q.id <= r.id}

\* ----------------------------------------------------------------- reads
\* a bug: fetch_optional and a default instead of the error
get_token_default(file, t) ==
    IF file # "ready" \/ MaxIdTokens(t) = {}
    THEN Ok("")
    ELSE Ok((CHOOSE r \in MaxIdTokens(t) : TRUE).token)

\* Github::get_token: fetch_one on the max-id row; any Err is TokenNotFound
get_token(file, t) ==
    IF file # "ready" \/ MaxIdTokens(t) = {}
    THEN Err("TokenNotFoundError")
    ELSE Ok((CHOOSE r \in MaxIdTokens(t) : TRUE).token)

\* a bug: the subquery without its WHERE: the user of any token row
get_user_anytoken(file, t) ==
    LET found == IF file # "ready" THEN {}
                 ELSE {u \in t.users :
                          \E r \in t.tokens :
                              r.user_id # NULL /\ u.id = r.user_id}
    IN  IF found = {} THEN Err("UserNotSetError")
        ELSE Ok(CHOOSE u \in found : TRUE)

\* Github::get_user: users row whose id is the max-id token's user_id
get_user(file, t) ==
    LET found == IF file # "ready" THEN {}
                 ELSE {u \in t.users :
                          \E r \in MaxIdTokens(t) :
                              r.user_id # NULL /\ u.id = r.user_id}
    IN  IF found = {} THEN Err("UserNotSetError")
        ELSE Ok(CHOOSE u \in found : TRUE)

\* ------------------------------------------------------------------ Init
\* DB::pool on a handle whose pool is None
PoolPanic == "Attempting to obtain pool for unconnected database!"

Init ==
    /\ dbfile = "absent"
    /\ tables = EmptyTables
    /\ proc = "down"
    /\ pool = FALSE
    /\ setupPc = "idle"
    /\ pc = [c \in Calls |-> "idle"]
    /\ tok = [c \in Calls |-> ""]
    /\ user = [c \in Calls |-> NoUser]
    /\ tx = NoTx
    /\ ret = NoRet

\* A panic (or a kill) ends the process: the handle, the pool and every
\* call in flight are gone, the open transaction is rolled back.
Dies(op, msg) ==
    /\ proc' = "down"
    /\ pool' = FALSE
    /\ setupPc' = "idle"
    /\ pc' = [c \in Calls |-> "idle"]
    /\ tok' = [c \in Calls |-> ""]
    /\ user' = [c \in Calls |-> NoUser]
    /\ tx' = NoTx
    /\ ret' = [op |-> op, panic |-> msg]
    /\ UNCHANGED <<dbfile, tables>>

\* ------------------------------------------------------------------ store
\* setup takes the handle by value and connect takes it by &mut, the session
\* calls take it by &: while setup runs nothing else has the handle, and
\* setup and connect run only while no session call is in flight.

\* DB::new
New ==
    /\ proc = "down"
    /\ proc' = "up"
    /\ ret' = [op |-> "new"]
    /\ UNCHANGED <<dbfile, tables, pool, setupPc, pc, tok, user, tx>>

\* a bug: no database_exists test: the database is created anew every time
SetupCreate_always ==
    /\ proc = "up" /\ setupPc = "idle"
    /\ \A c \in Calls : pc[c] = "idle"
    /\ dbfile' = "empty"
    /\ setupPc' = "created"
    /\ ret' = NoRet
    /\ UNCHANGED <<tables, proc, pool, pc, tok, user, tx>>

\* DB::setup up to and including create_database
SetupCreate ==
    /\ proc = "up" /\ setupPc = "idle"
    /\ \A c \in Calls : pc[c] = "idle"
    /\ IF dbfile = "absent"
       THEN /\ dbfile' = "empty"
            /\ setupPc' = "created"
            /\ ret' = NoRet
       ELSE /\ ret' = [op |-> "setup", wrote |-> FALSE]
            /\ UNCHANGED <<dbfile, setupPc>>
    /\ UNCHANGED <<tables, proc, pool, pc, tok, user, tx>>

\* DB::setup from create_db_schema on
SetupSchema(fails) ==
    /\ proc = "up" /\ setupPc = "created"
    /\ IF fails
       THEN Dies("setup", "create_db_schema")
       ELSE /\ dbfile' = "ready"
            /\ tables' = EmptyTables
            /\ setupPc' = "idle"
            /\ ret' = [op |-> "setup", wrote |-> TRUE]
            /\ UNCHANGED <<proc, pool, pc, tok, user, tx>>

\* a bug: connect on a connected handle opens a new pool over the old one
Connect_reconnect(fails) ==
    /\ proc = "up" /\ setupPc = "idle"
    /\ \A c \in Calls : pc[c] = "idle"
    /\ IF dbfile = "absent" \/ fails
       THEN Dies("connect", "Unable to open database!")
       ELSE /\ pool' = TRUE
            /\ ret' = [op |-> "connect"]
            /\ UNCHANGED <<dbfile, tables, proc, setupPc, pc, tok, user, tx>>

\* DB::connect
Connect(fails) ==
    /\ proc = "up" /\ setupPc = "idle"
    /\ \A c \in Calls : pc[c] = "idle"
    /\ IF pool
       THEN Dies("connect", "Attempting to connect to connected database!")
       ELSE IF dbfile = "absent" \/ fails
       THEN Dies("connect", "Unable to open database!")
       ELSE /\ pool' = TRUE
            /\ ret' = [op |-> "connect"]
            /\ UNCHANGED <<dbfile, tables, proc, setupPc, pc, tok, user, tx>>

\* the process is killed
Crash ==
    /\ proc = "up"
    /\ Dies("kill", "")

\* ---------------------------------------------------------------- session
\* what GithubRequest::send hands back when the request fails below HTTP
NetworkFailureReplies == {Err(s) : s \in StatusCodes \ {FORBIDDEN}}

\* what the remote identity endpoint may answer
WhoamiReplies ==
    {Ok(u) : u \in Profiles} \cup {Err(s) : s \in StatusCodes}
        \cup NetworkFailureReplies

\* a bug: every failure of whoami reported as a bad token
AuthError_allbad(status) == "BadTokenError"

\* a bug: the match arm on UNAUTHORIZED instead of FORBIDDEN
AuthError_unauthorized(status) ==
    IF status = 401 THEN "BadTokenError" ELSE "UnknownError"

\* set_token's match on the whoami error
AuthError(status) ==
    IF status = FORBIDDEN THEN "BadTokenError" ELSE "UnknownError"

\* Github::set_token is entered and awaits whoami
SetTokenCall(c, t) ==
    /\ proc = "up" /\ setupPc = "idle" /\ pc[c] = "idle"
    /\ pc' = [pc EXCEPT ![c] = "whoami"]
    /\ tok' = [tok EXCEPT ![c] = t]
    /\ ret' = NoRet
    /\ UNCHANGED <<dbfile, tables, proc, pool, setupPc, user, tx>>

\* a bug: the users statement run on the pool, outside the transaction
SetTokenUpsert_autocommit(c, r, fails) ==
    /\ proc = "up" /\ pc[c] = "whoami"
    /\ IF IsErr(r)
       THEN /\ ret' = [op |-> "set_token", res |-> Err(AuthError(r.err))]
            /\ pc' = [pc EXCEPT ![c] = "idle"]
            /\ tok' = [tok EXCEPT ![c] = ""]
            /\ UNCHANGED <<dbfile, tables, proc, pool, setupPc, user, tx>>
       ELSE IF ~pool
       THEN Dies("set_token", PoolPanic)
       ELSE IF dbfile # "ready" \/ fails
       THEN Dies("set_token", "Error inserting user into database")
       ELSE /\ tx = NoTx
            /\ tables.seq < MaxSeq
            /\ tables' = InsertOrReplaceUser(tables, r.ok)
            /\ tx' = tables'
            /\ user' = [user EXCEPT ![c] = r.ok]
            /\ pc' = [pc EXCEPT ![c] = "insert"]
            /\ ret' = NoRet
            /\ UNCHANGED <<dbfile, proc, pool, setupPc, tok>>

\* a bug: the write lock is not taken: two calls write in one transaction
SetTokenUpsert_nolock(c, r, fails) ==
    /\ proc = "up" /\ pc[c] = "whoami"
    /\ IF IsErr(r)
       THEN /\ ret' = [op |-> "set_token", res |-> Err(AuthError(r.err))]
            /\ pc' = [pc EXCEPT ![c] = "idle"]
            /\ tok' = [tok EXCEPT ![c] = ""]
            /\ UNCHANGED <<dbfile, tables, proc, pool, setupPc, user, tx>>
       ELSE IF ~pool
       THEN Dies("set_token", PoolPanic)
       ELSE IF dbfile # "ready" \/ fails
       THEN Dies("set_token", "Error inserting user into database")
       ELSE /\ tables.seq < MaxSeq
            /\ tx # NoTx => tx.seq < MaxSeq
            /\ tx' = InsertOrReplaceUser(tables, r.ok)
            /\ user' = [user EXCEPT ![c] = r.ok]
            /\ pc' = [pc EXCEPT ![c] = "insert"]
            /\ ret' = NoRet
            /\ UNCHANGED <<dbfile, tables, proc, pool, setupPc, tok>>

\* set_token from the return of whoami to the first write.  On Err the call
\* returns.  On Ok it takes db.pool(), begins the transaction and runs
\* INSERT OR REPLACE into users: the first write of a transaction takes the
\* database's write lock; while another transaction holds it the statement
\* waits, and it fails when the busy timeout runs out.  whoami touches no
\* local state, so its return is taken together with the steps after it.
SetTokenUpsert(c, r, fails) ==
    /\ proc = "up" /\ pc[c] = "whoami"
    /\ IF IsErr(r)
       THEN /\ ret' = [op |-> "set_token", res |-> Err(AuthError(r.err))]
            /\ pc' = [pc EXCEPT ![c] = "idle"]
            /\ tok' = [tok EXCEPT ![c] = ""]
            /\ UNCHANGED <<dbfile, tables, proc, pool, setupPc, user, tx>>
       ELSE IF ~pool
       THEN Dies("set_token", PoolPanic)
       ELSE IF dbfile # "ready" \/ fails
       THEN Dies("set_token", "Error inserting user into database")
       ELSE /\ tx = NoTx
            /\ tables.seq < MaxSeq
            /\ tx' = InsertOrReplaceUser(tables, r.ok)
            /\ user' = [user EXCEPT ![c] = r.ok]
            /\ pc' = [pc EXCEPT ![c] = "insert"]
            /\ ret' = NoRet
            /\ UNCHANGED <<dbfile, tables, proc, pool, setupPc, tok>>

\* set_token: INSERT OR REPLACE into tokens
InsertToken(c, fails) ==
    /\ proc = "up" /\ pc[c] = "insert"
    /\ IF fails
       THEN Dies("set_token", "Error inserting token into database")
       ELSE /\ tx' = InsertOrReplaceToken(tx, tok[c], user[c].id)
            /\ pc' = [pc EXCEPT ![c] = "commit"]
            /\ ret' = NoRet
            /\ UNCHANGED <<dbfile, tables, proc, pool, setupPc, tok, user>>

\* set_token: tx.commit() and Ok(())
Commit(c, fails) ==
    /\ proc = "up" /\ pc[c] = "commit"
    /\ IF fails
       THEN Dies("set_token", "Unable to commit transaction to set token")
       ELSE /\ tables' = tx
            /\ tx' = NoTx
            /\ ret' = [op |-> "set_token", res |-> Ok("unit")]
            /\ pc' = [pc EXCEPT ![c] = "idle"]
            /\ tok' = [tok EXCEPT ![c] = ""]
            /\ user' = [user EXCEPT ![c] = NoUser]
            /\ UNCHANGED <<dbfile, proc, pool, setupPc>>

\* Github::get_token; the query itself may fail, and every Err of fetch_one
\* takes the TokenNotFoundError arm
GetToken(fails) ==
    /\ proc = "up" /\ setupPc = "idle"
    /\ IF ~pool
       THEN Dies("get_token", PoolPanic)
       ELSE /\ ret' = [op |-> "get_token",
                       res |-> IF fails THEN Err("TokenNotFoundError")
                               ELSE get_token(dbfile, tables)]
            /\ UNCHANGED <<dbfile, tables, proc, pool, setupPc, pc, tok,
                           user, tx>>

\* a bug: the query run without asking the handle for its pool
GetUser_nopoolcheck(fails) ==
    /\ proc = "up" /\ setupPc = "idle"
    /\ ret' = [op |-> "get_user",
               res |-> IF fails THEN Err("UserNotSetError")
                       ELSE get_user(dbfile, tables)]
    /\ UNCHANGED <<dbfile, tables, proc, pool, setupPc, pc, tok, user, tx>>

\* Github::get_user; the query itself may fail, and every Err of fetch_one
\* takes the UserNotSetError arm
GetUser(fails) ==
    /\ proc = "up" /\ setupPc = "idle"
    /\ IF ~pool
       THEN Dies("get_user", PoolPanic)
       ELSE /\ ret' = [op |-> "get_user",
                       res |-> IF fails THEN Err("UserNotSetError")
                               ELSE get_user(dbfile, tables)]
            /\ UNCHANGED <<dbfile, tables, proc, pool, setupPc, pc, tok,
                           user, tx>>

\* the login get_pulls scopes the listing to
PullsUser == "jecluis"

\* Github::get_pulls with a token that authenticates the account whose login
\* is owner: the request prs::get is sent with
GetPulls(t, owner) ==
    /\ proc = "up"
    /\ ret' = [op |-> "get_pulls", user |-> PullsUser]
    /\ UNCHANGED <<dbfile, tables, proc, pool, setupPc, pc, tok, user, tx>>

Next ==
    \/ New
    \/ SetupCreate
    \/ \E f \in BOOLEAN : SetupSchema(f)
    \/ \E f \in BOOLEAN : Connect(f)
    \/ Crash
    \/ \E c \in Calls, t \in TokenStrings : SetTokenCall(c, t)
    \/ \E c \in Calls, r \in WhoamiReplies, f \in BOOLEAN : SetTokenUpsert(c, r, f)
    \/ \E c \in Calls, f \in BOOLEAN : InsertToken(c, f)
    \/ \E c \in Calls, f \in BOOLEAN : Commit(c, f)
    \/ GetToken(FALSE)
    \/ GetUser(FALSE)

Spec == Init /\ [][Next]_vars

\* --------------------------------------------------- the queries on any store
\* The queries read whatever the database file holds, and write nothing: a
\* query that fails changes only what its caller gets back.  Spec runs the
\* queries that succeed, among the writers; SpecQuery runs every query,
\* failing or not, and get_pulls, on every store the schema admits.  The store contents the
\* schema admits: users keyed by id with unique login, tokens keyed by id
\* with a nullable user_id and UNIQUE(token, user_id).
NoRow == <<>>
TokenCells == (TokenStrings \X (UserIds \cup {NULL})) \cup {NoRow}

TokenTables ==
    {{[id |-> i, token |-> f[i][1], user_id |-> f[i][2]] :
          i \in {j \in 1..MaxSeq : f[j] # NoRow}} :
       f \in [1..MaxSeq -> TokenCells]}

SchemaValid(t) ==
    /\ \A u, v \in t.users : (u.id = v.id \/ u.login = v.login) => u = v
    /\ \A r, q \in t.tokens : r.id = q.id => r = q
    /\ \A r, q \in t.tokens :
          (r.user_id # NULL /\ r.token = q.token /\ r.user_id = q.user_id)
              => r = q
    /\ \A r \in t.tokens : r.id <= t.seq

InitQuery ==
    /\ dbfile = "ready"
    /\ tables \in {t \in [users : SUBSET Profiles,
                          tokens : TokenTables,
                          seq : {MaxSeq}] : SchemaValid(t)}
    /\ proc = "up"
    /\ pool = TRUE
    /\ setupPc = "idle"
    /\ pc = [c \in Calls |-> "idle"]
    /\ tok = [c \in Calls |-> ""]
    /\ user = [c \in Calls |-> NoUser]
    /\ tx = NoTx
    /\ ret = NoRet

NextQuery ==
    \/ \E f \in BOOLEAN : GetToken(f)
    \/ \E f \in BOOLEAN : GetUser(f)
    \/ \E t \in TokenStrings, l \in Logins : GetPulls(t, l)

SpecQuery == InitQuery /\ [][NextQuery]_vars

\* ------------------------------------------------------------------ claims
Reads(t) == <<get_token("ready", t), get_user("ready", t)>>

\* C1: when set_token(T) returns Ok, the committed store is one on which
\* get_token returns T and get_user returns exactly the profile whoami
\* returned to that call; the queries themselves leave the store as it is.
C1_SetThenGet ==
    [][/\ \A c \in Calls :
            Commit(c, FALSE) =>
                /\ get_token(dbfile', tables') = Ok(tok[c])
                /\ get_user(dbfile', tables') = Ok(user[c])
       /\ tables' = tables \/ ~(GetToken(FALSE) \/ GetUser(FALSE))]_vars

C1_Witness ==
    /\ ret.op = "set_token" /\ "res" \in DOMAIN ret /\ IsOk(ret.res)
    /\ Cardinality(tables.tokens) >= 2
    /\ Cardinality(tables.users) >= 2

\* C2: last written wins: a set_token that commits on a store that already
\* has an active token makes its own token the active one, with an id above
\* every id stored before, also when its (token, user) pair was stored before
\* the token that was active.
C2_LastWrittenWins ==
    [][\A c \in Calls :
          (Commit(c, FALSE) /\ tables.tokens # {}) =>
              /\ get_token(dbfile', tables') = Ok(tok[c])
              /\ \A q \in MaxIdTokens(tables') :
                    /\ q.token = tok[c] /\ q.user_id = user[c].id
                    /\ \A r \in tables.tokens : r.id < q.id]_vars

\* a call about to commit whose pair is stored under an id below the active one
C2_Witness ==
    \E c \in Calls :
        /\ pc[c] = "commit"
        /\ \E r \in tables.tokens :
              /\ r.token = tok[c] /\ r.user_id = user[c].id
              /\ r \notin MaxIdTokens(tables)
              /\ r \notin tx.tokens
              /\ \E q \in MaxIdTokens(tables) :
                    q.token # tok[c] /\ q.user_id = user[c].id

\* C3: when whoami answers FORBIDDEN, set_token returns BadTokenError and
\* users, tokens and what the two queries return are as before the call.
C3_ForbiddenNoWrite ==
    [][\A c \in Calls, f \in BOOLEAN :
          (pc[c] = "whoami" /\ pc'[c] = "idle"
              /\ SetTokenUpsert(c, Err(FORBIDDEN), f)) =>
              /\ ret' = [op |-> "set_token", res |-> Err("BadTokenError")]
              /\ proc' = "up"
              /\ tables' = tables /\ dbfile' = dbfile
              /\ Reads(tables') = Reads(tables)]_vars

C3_Witness ==
    /\ ret = [op |-> "set_token", res |-> Err("BadTokenError")]
    /\ tables.tokens # {}
    /\ IsOk(get_user(dbfile, tables))

\* C4: the committed store changes only by a commit, and a commit makes the
\* user row and the token row of its call visible together; a call that dies
\* after its users statement leaves nothing behind.
C4_AtomicWrites ==
    [][tables' # tables =>
          \E c \in Calls :
              /\ pc[c] = "commit"
              /\ user[c] \in tables'.users
              /\ \E r \in tables'.tokens :
                    /\ r.token = tok[c] /\ r.user_id = user[c].id
                    /\ r.id > tables.seq]_vars

\* the users statement has run, the tokens statement has not
C4_Witness ==
    \E c \in Calls :
        /\ pc[c] = "insert"
        /\ tx.users # tables.users
        /\ tables.tokens # {}

\* C5: the writes of concurrent set_token calls do not interleave: what a
\* call commits is the committed store with its own users statement and then
\* its own tokens statement applied, so the active token and the user it
\* references are from the same call.
C5_Serial ==
    [][\A c \in Calls :
          Commit(c, FALSE) =>
              /\ tables' = InsertOrReplaceToken(
                               InsertOrReplaceUser(tables, user[c]),
                               tok[c], user[c].id)
              /\ \A q \in MaxIdTokens(tables') :
                    /\ q.token = tok[c]
                    /\ \E u \in tables'.users : u = user[c] /\ u.id = q.user_id]_vars

\* one call holds the transaction, another has entered since the last commit
C5_Witness ==
    \E c, d \in Calls :
        /\ c # d
        /\ pc[c] = "commit" /\ pc[d] = "whoami"
        /\ tok[c] # tok[d]
        /\ tables.tokens # {}

\* C6: a users row, once committed, has a row with its id in every later state.
C6_UserRowsStay ==
    [][\A u \in tables.users : \E v \in tables'.users : v.id = u.id]_vars

\* C7: at most one users row per id, and a committed set_token leaves for
\* its user's id exactly the profile whoami returned.
C7_OneRowLatest ==
    [][/\ \A u, v \in tables'.users : u.id = v.id => u = v
       /\ \A c \in Calls :
             Commit(c, FALSE) =>
                 {u \in tables'.users : u.id = user[c].id} = {user[c]}]_vars

\* a call about to commit a profile that differs in name and avatar from the
\* row stored for its id
C7_Witness ==
    \E c \in Calls :
        /\ pc[c] = "commit"
        /\ \E u \in tables.users :
              /\ u.id = user[c].id
              /\ u.name # user[c].name
              /\ u.avatar_url # user[c].avatar_url

\* C8: get_token on a connected store with no token row returns
\* TokenNotFoundError, and the process lives on.
C8_EmptyTokenNotFound ==
    [][(pool /\ tables.tokens = {} /\ \E f \in BOOLEAN : GetToken(f)) =>
          /\ ret' = [op |-> "get_token", res |-> Err("TokenNotFoundError")]
          /\ proc' = "up" /\ pool']_vars

C8_Witness ==
    /\ ret = [op |-> "get_token", res |-> Err("TokenNotFoundError")]
    /\ dbfile = "ready" /\ proc = "up" /\ pool
    /\ tables.tokens = {}

\* the max-id token row names a user that has a row
Resolves(t) ==
    /\ t.tokens # {}
    /\ LET top == CHOOSE r \in t.tokens : r.id = SetMax({q.id : q \in t.tokens})
       IN  top.user_id # NULL /\ \E u \in t.users : u.id = top.user_id

\* C9: get_user returns UserNotSetError when there is no token, when the
\* max-id token's user_id is null and when no users row has that id; it
\* returns a profile only when the max-id token's user_id is the id of a
\* users row, and then that row.
C9_UserNotSet ==
    ret.op = "get_user" =>
        /\ ~Resolves(tables) => ret.res = Err("UserNotSetError")
        /\ IsOk(ret.res) =>
               /\ Resolves(tables)
               /\ ret.res.ok \in tables.users
               /\ \E r \in tables.tokens :
                     /\ r.id = SetMax({q.id : q \in tables.tokens})
                     /\ r.user_id = ret.res.ok.id

\* the max-id token has a null user_id while an older token names a stored user
C9_Witness ==
    /\ ret = [op |-> "get_user", res |-> Err("UserNotSetError")]
    /\ \E r \in MaxIdTokens(tables) : r.user_id = NULL
    /\ \E r \in tables.tokens, u \in tables.users : r.user_id = u.id

\* C10: whenever the handle has a pool to hand out, the schema's tables exist.
C10_SchemaBeforePool ==
    pool => dbfile = "ready"

\* C11: setup on a path whose database an earlier setup created performs no
\* write (file, schema and rows as they were) and does not fail.
C11_SetupIdempotent ==
    [][(SetupCreate /\ dbfile = "ready") =>
          /\ dbfile' = dbfile /\ tables' = tables
          /\ proc' = "up" /\ setupPc' = "idle" /\ pool' = pool
          /\ ret' = [op |-> "setup", wrote |-> FALSE]]_vars

\* a second setup has returned on a store that holds rows
C11_Witness ==
    /\ ret = [op |-> "setup", wrote |-> FALSE]
    /\ dbfile = "ready"
    /\ tables.tokens # {} /\ tables.users # {}

\* C12: connect on a connected handle panics and the pool is not replaced;
\* a handle's pool goes from None to Some only by a connect that succeeds,
\* and never back while the handle lives.
C12_ConnectOnce ==
    [][/\ ((\E f \in BOOLEAN : Connect(f)) /\ pool) =>
             /\ proc' = "down"
             /\ ret' = [op |-> "connect",
                        panic |-> "Attempting to connect to connected database!"]
       /\ (pool /\ proc' = "up") => pool'
       /\ (~pool /\ pool') => (ret' = [op |-> "connect"] /\ proc = "up")]_vars

C12_Witness ==
    ret = [op |-> "connect",
           panic |-> "Attempting to connect to connected database!"]

\* C13: pool() hands out the pool only on a handle on which connect has
\* succeeded; on any other handle the caller of pool() panics and gets
\* nothing back.
C13_PoolNeedsConnect ==
    [][/\ (/\ ~pool
           /\ \E f \in BOOLEAN :
                 \/ GetToken(f) \/ GetUser(f)
                 \/ \E c \in Calls, u \in Profiles : SetTokenUpsert(c, Ok(u), f))
          => (proc' = "down" /\ "panic" \in DOMAIN ret' /\ ret'.panic = PoolPanic)
       /\ ("res" \in DOMAIN ret' /\ ret'.op \in {"get_token", "get_user"})
          => (pool /\ pool')
       /\ (\E c \in Calls : pc'[c] \in {"insert", "commit"}) => (pool /\ pool')
       /\ (~pool /\ pool') => ret' = [op |-> "connect"]]_vars

\* a query on a handle that was never connected, the database being in place
C13_Witness ==
    /\ ret = [op |-> "get_user", panic |-> PoolPanic]
    /\ dbfile = "ready"

\* C14: get_pulls scopes the listing to the login of the account its token
\* authenticates.
C14_PullsOfTokenOwner ==
    [][\A t \in TokenStrings, l \in Logins :
          GetPulls(t, l) => ret'.user = l]_vars

\* C15: every failure of whoami is classified: FORBIDDEN gives BadTokenError,
\* any other status and a network failure give UnknownError, and no
\* transaction is opened nor anything written.
C15_ClassifiesFailures ==
    [][\A c \in Calls :
          (pc[c] = "whoami" /\ pc'[c] = "idle" /\ "res" \in DOMAIN ret') =>
             \A f \in BOOLEAN :
                /\ \A s \in StatusCodes :
                      SetTokenUpsert(c, Err(s), f) =>
                          /\ ret' = [op |-> "set_token",
                                     res |-> Err(IF s = FORBIDDEN
                                                 THEN "BadTokenError"
                                                 ELSE "UnknownError")]
                          /\ tx' = tx /\ tables' = tables
                          /\ pc'[c] = "idle" /\ proc' = "up"
                /\ \A r \in NetworkFailureReplies :
                      SetTokenUpsert(c, r, f) =>
                          /\ ret' = [op |-> "set_token",
                                     res |-> Err("UnknownError")]
                          /\ tx' = tx /\ tables' = tables
                          /\ pc'[c] = "idle" /\ proc' = "up"]_vars

\* UnknownError returned while another call's transaction stays open
C15_Witness ==
    /\ ret = [op |-> "set_token", res |-> Err("UnknownError")]
    /\ \E c \in Calls : pc[c] = "commit"
    /\ tx # NoTx

\* C16: a database operation that fails inside set_token, get_token or
\* get_user ends the process; it is not returned as one of the taxonomy errors.
C16_StorageFailureDies ==
    [][(\/ GetToken(TRUE) \/ GetUser(TRUE)
        \/ \E c \in Calls :
              \/ InsertToken(c, TRUE) \/ Commit(c, TRUE)
              \/ \E u \in Profiles : SetTokenUpsert(c, Ok(u), TRUE))
          => (proc' = "down" /\ "panic" \in DOMAIN ret')]_vars

\* C17: the (token, user_id) stored under a token id never changes, and a
\* new token row gets an id above every id handed out before, the ids of
\* rows since removed included.
C17_TokenRowsImmutable ==
    [][/\ \A r \in tables.tokens, q \in tables'.tokens : r.id = q.id => r = q
       /\ \A q \in tables'.tokens \ tables.tokens : q.id > tables.seq
       /\ \A q \in tables'.tokens : q.id <= tables'.seq
       /\ tables'.seq >= tables.seq]_vars

\* a row was removed and the row written after it has a new id
C17_Witness ==
    /\ ret = [op |-> "set_token", res |-> Ok("unit")]
    /\ Cardinality(tables.tokens) >= 2
    /\ \E k \in 1..tables.seq :
          /\ \A r \in tables.tokens : r.id # k
          /\ \E r \in tables.tokens : r.id > k

\* C18: at most one token row per (token, user_id); a set_token with a pair
\* already stored leaves exactly one row for the pair, and it is the max-id row.
C18_PairUnique ==
    [][/\ \A r, q \in tables'.tokens :
             (r.token = q.token /\ r.user_id = q.user_id) => r = q
       /\ \A c \in Calls :
             Commit(c, FALSE) =>
                 {r \in tables'.tokens :
                     r.token = tok[c] /\ r.user_id = user[c].id}
                   = MaxIdTokens(tables')]_vars

\* a call about to commit the pair that is the active row already
C18_Witness ==
    \E c \in Calls :
        /\ pc[c] = "commit"
        /\ \E r \in MaxIdTokens(tables) :
              r.token = tok[c] /\ r.user_id = user[c].id
        /\ Cardinality(tables.tokens) >= 2

\* C19: every committed token row with a user_id names a users row that exists.
C19_TokenUserExists ==
    \A r \in tables.tokens :
        r.user_id # NULL => \E u \in tables.users : u.id = r.user_id

\* the store has an active user: a max-id token whose user has a row
HasActiveUser(file, t) ==
    /\ IsOk(get_token(file, t))
    /\ IsOk(get_user(file, t))
    /\ \A r \in MaxIdTokens(t) : get_user(file, t).ok.id = r.user_id

\* C20: once a set_token has committed, the store has a token from then on,
\* and in every later state a get_token that runs returns a token and a
\* get_user that runs returns a profile whose id is the max-id token's user_id.
C20_StaysActive ==
    [][/\ tables.tokens # {} => tables'.tokens # {}
       /\ (tables' # tables \/ dbfile' # dbfile) =>
             (tables'.tokens # {} => HasActiveUser(dbfile', tables'))
       /\ (pool /\ tables.tokens # {} /\ "res" \in DOMAIN ret') =>
             /\ (ret'.op = "get_token" /\ GetToken(FALSE)) => IsOk(ret'.res)
             /\ (ret'.op = "get_user" /\ GetUser(FALSE)) =>
                   /\ IsOk(ret'.res)
                   /\ \A r \in MaxIdTokens(tables') :
                         ret'.res.ok.id = r.user_id]_vars

\* get_user answers with a profile on a store where an older token's user
\* has lost its row
C20_Witness ==
    /\ ret.op = "get_user" /\ "res" \in DOMAIN ret /\ IsOk(ret.res)
    /\ \E r \in tables.tokens :
          r.user_id # NULL /\ \A u \in tables.users : u.id # r.user_id
====
